---- MODULE Spec2Model ----
(***************************************************************************)
(* Row streaming engine of the C# driver bridge (rust/src/row_set.rs).     *)
(*                                                                         *)
(* A RowSet holds `pager: Mutex<Option<QueryPager>>`.  The exported        *)
(* functions row_set_get_columns_count, row_set_fill_columns_metadata and  *)
(* row_set_next_row lock the mutex, work on the pager and drop the guard   *)
(* when they return.  Foreign threads may call them concurrently, so each  *)
(* thread has a program counter; a step of a thread is the code between    *)
(* two points where another thread can observe it (the lock, the await of  *)
(* the pager, every call of a foreign callback).                           *)
(*                                                                         *)
(* QueryPager is the scylla crate's cursor.  It is modelled by what the    *)
(* engine sees of it: the columns it declares, how many rows it has        *)
(* yielded, whether its page channel is closed, and, at every await, the   *)
(* answer the server makes it give (a row, a failure, or the end).         *)
(***************************************************************************)
EXTENDS Naturals, Integers, Sequences, FiniteSets, TLC

\* ------------------------------------------------------------------ bounds
NumThreads == 2
MaxCols == 2
MaxRows == 2
MaxCalls == 4

Threads == 1..NumThreads

\* The unlocked state of `pager: std::sync::Mutex<..>`: no thread holds a guard.
NoThread == 0

VARIABLES
    pager,   \* RowSet.pager: the Option<QueryPager> inside the mutex
    guard,   \* the thread holding the MutexGuard of RowSet.pager, or NoThread
    pc,      \* per thread: where it is inside an exported function
    call,    \* per thread: the frame (locals) of the call it is in
    ret,     \* the frame of the call that returned last, as its caller sees it
    calls,   \* number of exported calls started (bounded by MaxCalls)
    hist,    \* history: what the stream has delivered and which faults occurred
    task,    \* the session operation that was scheduled to produce the stream
    walk     \* the last call of a type accessor: its arguments and its outcome

\* What the functions on a RowSet leave alone.
others == <<task, walk>>

vars == <<pager, guard, pc, call, ret, calls, hist, task, walk>>

\* ------------------------------------------------------------ column types
\* scylla's ColumnType<'_>, as far as row_set.rs matches on it.
Native(nt) ==
    [kind |-> "Native", name |-> nt, frozen |-> FALSE, fields |-> <<>>, fnames |-> <<>>]

Collection(ct, isFrozen, children) ==
    [kind |-> "Collection", name |-> ct, frozen |-> isFrozen, fields |-> children,
     fnames |-> <<>>]

Tuple(children) ==
    [kind |-> "Tuple", name |-> "", frozen |-> FALSE, fields |-> children, fnames |-> <<>>]

UserDefinedType(udtName, isFrozen, names, children) ==
    [kind |-> "UserDefinedType", name |-> udtName, frozen |-> isFrozen,
     fields |-> children, fnames |-> names]

Vector(child) ==
    [kind |-> "Vector", name |-> "", frozen |-> FALSE, fields |-> <<child>>, fnames |-> <<>>]

\* fn column_type_to_code(typ: &ColumnType) -> u8
NativeTypeCode(nt) ==
    CASE nt = "Ascii" -> 1
      [] nt = "BigInt" -> 2
      [] nt = "Blob" -> 3
      [] nt = "Boolean" -> 4
      [] nt = "Counter" -> 5
      [] nt = "Decimal" -> 6
      [] nt = "Double" -> 7
      [] nt = "Float" -> 8
      [] nt = "Int" -> 9
      [] nt = "Text" -> 10
      [] nt = "Timestamp" -> 11
      [] nt = "Uuid" -> 12
      [] nt = "Varint" -> 14
      [] nt = "Timeuuid" -> 15
      [] nt = "Inet" -> 16
      [] nt = "Date" -> 17
      [] nt = "Time" -> 18
      [] nt = "SmallInt" -> 19
      [] nt = "TinyInt" -> 20
      [] nt = "Duration" -> 21
      [] OTHER -> 0

\* Mutant: the codes of map and set change places.
CollectionTypeCode_swapped(ct) ==
    CASE ct = "List" -> 32
      [] ct = "Map" -> 34
      [] ct = "Set" -> 33
      [] OTHER -> 0

CollectionTypeCode(ct) ==
    CASE ct = "List" -> 32
      [] ct = "Map" -> 33
      [] ct = "Set" -> 34
      [] OTHER -> 0

column_type_to_code(typ) ==
    CASE typ.kind = "Native" -> NativeTypeCode(typ.name)
      [] typ.kind = "Collection" -> CollectionTypeCode(typ.name)
      [] typ.kind = "Vector" -> 32
      [] typ.kind = "UserDefinedType" -> 48
      [] typ.kind = "Tuple" -> 49
      [] OTHER -> 0

\* A ColumnSpec: name, table_spec (ks_name, table_name) and typ.
ColumnSpec(colName, typ) ==
    [name |-> colName, ks_name |-> "ks", table_name |-> "tbl", typ |-> typ]

\* The column specs the modelled result sets declare, in declaration order.
Catalogue ==
    << ColumnSpec("c0", Native("Int")),
       ColumnSpec("c1", Collection("List", TRUE, <<Native("Text")>>)),
       ColumnSpec("c2", UserDefinedType("u", FALSE, <<"x", "y">>,
                                        <<Native("Int"), Native("Text")>>)),
       ColumnSpec("c3", Tuple(<<Native("Int")>>)) >>

ColumnSpecAt(i) == Catalogue[((i - 1) % Len(Catalogue)) + 1]

ColumnSpecs(n) == [i \in 1..n |-> ColumnSpecAt(i)]

\* ------------------------------------------------------------ FfiException
\* An FfiException is a nullable handle of a foreign exception.  kind says
\* who made it; a and b carry what tells two exceptions of a kind apart.
FfiException(k, x, y) == [kind |-> k, a |-> x, b |-> y]

\* FfiException::ok()
FfiException_ok == FfiException("ok", 0, 0)

\* Mutant: a returned exception goes unnoticed.
has_exception_never(e) == FALSE

\* FfiException::has_exception()
has_exception(e) == e.kind # "ok"

\* Mutant: the driver error is lost in marshalling.
from_error_lost(err) == FfiException("ok", 0, 0)

\* FfiException::from_error(err, constructors): the marshalled driver error.
from_error(err) == FfiException("error", err, 0)

\* The driver errors the engine marshals: a NextRowError of the pager, and
\* the error of a column's frame.
NextRowError == 1
ColumnError == 2

\* Mutant: the two counts of the message change places.
FewerColumnsException_swapped(value_index, num_columns) ==
    FfiException("fewer_columns", num_columns, value_index)

\* rust_exception_constructor.construct_from_rust(format!("Row contains fewer
\* columns ({} of {}) than metadata claims", value_index, num_columns))
FewerColumnsException(value_index, num_columns) ==
    FfiException("fewer_columns", value_index, num_columns)

\* Mutant: the missing pager is not reported.
NoPagerException_none == FfiException("ok", 0, 0)

\* rust_exception_constructor.construct_from_rust("RowSet has no pager to get
\* metadata from")
NoPagerException == FfiException("no_pager", 0, 0)

\* What a foreign callback (deserialize_value, set_metadata) can return:
\* no exception, or one of two distinct foreign exceptions.
CallbackResults ==
    {FfiException_ok, FfiException("foreign", 1, 0), FfiException("foreign", 2, 0)}

\* ------------------------------------------------------------------ pager
\* A raw column of a row: a null value, a frame slice, or a frame that does
\* not parse (column_iterator.next() yields Some(Err(..))).
RawColumns == {"null", "slice", "err"}

\* The rows a cursor over n declared columns may yield: at most n raw
\* columns each (a row shorter than the metadata is what lines 209-219 guard
\* against).
RowsOf(n) == UNION {[1..m -> RawColumns] : m \in 0..n}

\* RowSet::empty(): Mutex::new(None)
NoPager == [some |-> FALSE, column_specs |-> <<>>, pos |-> 0, closed |-> TRUE]

\* session_query / session_query_bound: Mutex::new(Some(query_pager)).  pos is
\* the number of rows the pager has yielded so far.
SomePager(n) == [some |-> TRUE, column_specs |-> ColumnSpecs(n), pos |-> 0, closed |-> FALSE]

\* -------------------------------------------------------------------- call
\* The frame of a call: which function (op), by which thread, the how-manyeth
\* call on the stream (id); its locals (row: the number of the row the pager
\* yielded to it, column_iterator: that row's raw columns, value_index); what
\* it did (answer: what the pager answered when it awaited it, "none" if it
\* did not; cbs: the indices it passed to the callback; thrown: what the
\* last callback returned); and what it hands
\* back (has_row with the number of writes to out_has_row, result, count).
\* meta holds the arguments of the set_metadata calls it made.
NoCall ==
    [op |-> "none", thread |-> NoThread, id |-> 0, answer |-> "none", row |-> 0,
     column_iterator |-> <<>>, value_index |-> 0, cbs |-> <<>>, meta |-> <<>>,
     thrown |-> FfiException_ok, has_row |-> FALSE, writes |-> 0,
     result |-> FfiException_ok, count |-> 0]

NewCall(name, t) == [NoCall EXCEPT !.op = name, !.thread = t, !.id = calls + 1]

\* delivered: the rows handed out with has_row = true, in the order of the
\* returns; failed: the rows whose call returned an exception; faulty: the
\* pager failed a fetch or yielded a malformed row, or a callback signalled
\* an exception; exhaustedAt: the id of the first call the pager answered
\* None, fetchFailedAt: the id of the first call whose fetch failed (0: none
\* yet).
NoHist ==
    [delivered |-> <<>>, failed |-> {}, faulty |-> FALSE, exhaustedAt |-> 0,
     fetchFailedAt |-> 0]

\* No session operation is modelled: the stream is there from the start.
NoTask ==
    [op |-> "none", state |-> "none", cause |-> "none", error |-> "none",
     inner |-> "none"]

\* No type accessor was called.
NoWalk ==
    [fn |-> "none", handle |-> [null |-> TRUE, typ |-> Native("")], index |-> 0,
     out_null |-> FALSE, panicked |-> FALSE, value |-> 0, out_handles |-> <<>>,
     out_names |-> <<>>]

Init ==
    /\ task = NoTask
    /\ walk = NoWalk
    /\ pager \in {NoPager} \cup {SomePager(n) : n \in 0..MaxCols}
    /\ guard = NoThread
    /\ pc = [t \in Threads |-> "idle"]
    /\ call = [t \in Threads |-> NoCall]
    /\ ret = NoCall
    /\ calls = 0
    /\ hist = NoHist

\* ------------------------------------------------------------------- mutex
\* Mutant: the pager is reached without mutual exclusion.
lock_unguarded(g) == TRUE

\* row_set.pager.lock(): returns a guard once no other guard is alive.
lock(g) == g = NoThread

\* Mutant: the guard outlives the call (the mutex stays locked).
DropGuard_leaked(g, t) == g

\* The MutexGuard going out of scope when the function returns.
DropGuard(g, t) == NoThread

\* --------------------------------------------------- row_set_get_columns_count
\* pager.as_ref().map(|p| p.column_specs().len()).unwrap_or(0)
\* Mutant: the count is taken of an empty slice.
column_specs_len_zero(p) == 0

\* p.column_specs().len()
column_specs_len(p) == Len(p.column_specs)

\* Mutant: the count of an empty RowSet defaults to one.
columns_count_or_one(p) == IF p.some THEN column_specs_len(p) ELSE 1

columns_count(p) == IF p.some THEN column_specs_len(p) ELSE 0

\* The whole function: lock, read, drop the guard.  It awaits nothing and
\* calls nothing foreign, so no other thread can observe it half done.
row_set_get_columns_count(t) ==
    /\ pc[t] = "idle"
    /\ calls < MaxCalls
    /\ lock(guard)
    /\ ret' = [NewCall("columns_count", t) EXCEPT !.count = columns_count(pager)]
    /\ guard' = DropGuard(t, t)
    /\ calls' = calls + 1
    /\ UNCHANGED <<pager, pc, call, hist, others>>

\* ----------------------------------------------- row_set_fill_columns_metadata
\* A borrowed handle of a ColumnType: RefFFI::null() or RefFFI::as_ptr(typ).
RefFFI_null == [null |-> TRUE, typ |-> Native("")]
RefFFI_as_ptr(typ) == [null |-> FALSE, typ |-> typ]

\* Mutant: every column gets a handle.
type_info_handle_always(typ) == RefFFI_as_ptr(typ)

\* if type_code >= 0x20 { RefFFI::as_ptr(spec.typ()) } else { RefFFI::null() }
type_info_handle(typ) ==
    IF column_type_to_code(typ) >= 32 THEN RefFFI_as_ptr(typ) ELSE RefFFI_null

\* match spec.typ() { Collection { frozen, .. } | UserDefinedType { frozen, .. }
\*     => *frozen, _ => false }
is_frozen(typ) ==
    IF typ.kind \in {"Collection", "UserDefinedType"} THEN typ.frozen ELSE FALSE

\* Mutant: keyspace and table change places.
MetadataArgs_swapped(i, spec) ==
    [value_index |-> i, name |-> spec.name, keyspace |-> spec.table_name,
     table |-> spec.ks_name, type_code |-> column_type_to_code(spec.typ),
     type_info_handle |-> type_info_handle(spec.typ),
     is_frozen |-> is_frozen(spec.typ)]

\* The arguments of set_metadata for the column spec at index i (0-based).
MetadataArgs(i, spec) ==
    [value_index |-> i, name |-> spec.name, keyspace |-> spec.ks_name,
     table |-> spec.table_name, type_code |-> column_type_to_code(spec.typ),
     type_info_handle |-> type_info_handle(spec.typ),
     is_frozen |-> is_frozen(spec.typ)]

\* Mutant: the exception of the callback is dropped and ok is returned.
ReturnMetadata_swallowed(t, c, e) ==
    /\ ret' = [c EXCEPT !.result = FfiException("ok", 0, 0)]
    /\ call' = [call EXCEPT ![t] = NoCall]
    /\ pc' = [pc EXCEPT ![t] = "idle"]
    /\ guard' = NoThread

\* The end of row_set_fill_columns_metadata: it returns e and drops the guard.
ReturnMetadata(t, c, e) ==
    /\ ret' = [c EXCEPT !.result = e]
    /\ call' = [call EXCEPT ![t] = NoCall]
    /\ pc' = [pc EXCEPT ![t] = "idle"]
    /\ guard' = DropGuard(guard, t)

\* for (i, spec) in pager.column_specs().iter().enumerate(): the loop goes on
\* with frame c, or is over and the function returns FfiException::ok().
ContinueMetadata(t, c) ==
    IF c.value_index < Len(pager.column_specs)
    THEN /\ call' = [call EXCEPT ![t] = c]
         /\ pc' = [pc EXCEPT ![t] = "metadata"]
         /\ guard' = t
         /\ UNCHANGED ret
    ELSE ReturnMetadata(t, c, FfiException_ok)

\* Lines 86-94: lock the pager; without a pager return a RustException.
row_set_fill_columns_metadata(t) ==
    /\ pc[t] = "idle"
    /\ calls < MaxCalls
    /\ lock(guard)
    /\ calls' = calls + 1
    /\ UNCHANGED <<pager, hist, others>>
    /\ IF ~pager.some
       THEN /\ ret' = [NewCall("fill_columns_metadata", t) EXCEPT
                         !.result = NoPagerException]
            /\ guard' = DropGuard(t, t)
            /\ UNCHANGED <<pc, call>>
       ELSE ContinueMetadata(t, NewCall("fill_columns_metadata", t))

\* Lines 97-133: one iteration of the loop: set_metadata is called for the
\* column spec at value_index and may return an exception.
set_metadata(t) ==
    /\ pc[t] = "metadata"
    /\ guard = t
    /\ UNCHANGED <<pager, calls, hist, others>>
    /\ LET c == call[t]
           i == c.value_index
       IN
       \E e \in CallbackResults :
          LET d == [c EXCEPT !.cbs = Append(@, i),
                             !.meta = Append(@, MetadataArgs(i, pager.column_specs[i + 1])),
                             !.thrown = e]
          IN
          IF has_exception(e)
          THEN ReturnMetadata(t, d, e)
          ELSE ContinueMetadata(t, [d EXCEPT !.value_index = i + 1])

\* ------------------------------------------------------------ row_set_next_row
\* The result of the async block `deserialize_fut`: Ok(bool) or Err(FfiException).
Ok(b) == [ok |-> TRUE, has_row |-> b, exc |-> FfiException_ok]
Err(e) == [ok |-> FALSE, has_row |-> FALSE, exc |-> e]

\* Mutant: Ok(false) is taken for a row.
block_on_any_ok(res) ==
    IF res.ok THEN [has_row |-> TRUE, result |-> FfiException_ok]
    ELSE [has_row |-> FALSE, result |-> res.exc]

\* match BridgedFuture::block_on(deserialize_fut) {
\*     Ok(has_row) => (has_row, FfiException::ok()),
\*     Err(exception) => (false, exception) }
block_on(res) ==
    IF res.ok THEN [has_row |-> res.has_row, result |-> FfiException_ok]
    ELSE [has_row |-> FALSE, result |-> res.exc]

\* Mutant: out_has_row is written only when the future ended well.
Returned_unwritten_on_error(c, res) ==
    [c EXCEPT !.has_row = block_on(res).has_row,
              !.writes = IF res.ok THEN @ + 1 ELSE @,
              !.result = block_on(res).result]

\* `*out_has_row = has_row; result`: the frame c of a call whose future
\* ended with res.
Returned(c, res) ==
    [c EXCEPT !.has_row = block_on(res).has_row,
              !.writes = @ + 1,
              !.result = block_on(res).result]

\* The history after thread t's call, with frame c, returned.
Recorded(h, c) ==
    IF c.has_row THEN [h EXCEPT !.delivered = Append(@, c.row)]
    ELSE IF c.row # 0 THEN [h EXCEPT !.failed = @ \cup {c.row}]
    ELSE h

\* The end of row_set_next_row: the future of thread t ended with res, the
\* out parameter is written, the guard is dropped and the call returns.
Return(t, c, res, h) ==
    /\ ret' = Returned(c, res)
    /\ call' = [call EXCEPT ![t] = NoCall]
    /\ pc' = [pc EXCEPT ![t] = "idle"]
    /\ guard' = DropGuard(guard, t)
    /\ hist' = Recorded(h, Returned(c, res))

\* Lines 176-184: lock the pager; an empty RowSet has no rows.
row_set_next_row(t) ==
    /\ pc[t] = "idle"
    /\ calls < MaxCalls
    /\ lock(guard)
    /\ calls' = calls + 1
    /\ UNCHANGED <<pager, others>>
    /\ IF ~pager.some
       THEN /\ ret' = [NewCall("next_row", t) EXCEPT !.has_row = FALSE, !.writes = 1]
            /\ guard' = DropGuard(t, t)
            /\ UNCHANGED <<pc, call, hist>>
       ELSE /\ call' = [call EXCEPT ![t] = NewCall("next_row", t)]
            /\ guard' = t
            /\ pc' = [pc EXCEPT ![t] = "await"]
            /\ UNCHANGED <<ret, hist>>

\* let num_columns = pager.column_specs().len();
num_columns(p) == Len(p.column_specs)

\* Mutant: the loop stops one column early.
in_range_short(value_index, n) == value_index + 1 < n

\* value_index in 0..num_columns
in_range(value_index, n) == value_index < n

\* Mutant: a null value is handed to the callback like any other.
is_null_never(raw_column) == FALSE

\* let Some(frame_slice) = raw_column.slice else { continue }: the raw column
\* holds no slice.
is_null(raw_column) == raw_column = "null"

\* for value_index in 0..num_columns: the loop goes on with frame c, or is
\* over and the future ends with Ok(true).
ContinueWith(t, c, h) ==
    IF in_range(c.value_index, num_columns(pager))
    THEN /\ call' = [call EXCEPT ![t] = c]
         /\ pc' = [pc EXCEPT ![t] = "columns"]
         /\ hist' = h
         /\ UNCHANGED <<guard, ret>>
    ELSE Return(t, c, Ok(TRUE), h)

Continue(t, c) == ContinueWith(t, c, hist)

\* A row the server should not send: fewer raw columns than the metadata
\* declares, or a column whose frame does not parse.
Malformed(r) ==
    \/ Len(r) < Len(pager.column_specs)
    \/ \E i \in 1..Len(r) : r[i] = "err"

\* Mutant: the cursor stays on the row it yielded.
Yielded_again(p) == p

\* Mutant: yielding a row takes the pager out of the RowSet.
Yielded_and_taken(p) == [p EXCEPT !.pos = @ + 1, !.some = FALSE]

\* The pager after next_column_iterator() yielded a row: the cursor is past
\* it, whatever the call does with the row.
Yielded(p) == [p EXCEPT !.pos = @ + 1]

\* Lines 196-206: pager.next_column_iterator().await.  The pager yields None
\* when the server has no more rows (and from then on), a NextRowError when
\* a fetch fails (its page channel may or may not survive that), or the
\* column iterator of the next row.
next_column_iterator(t) ==
    /\ pc[t] = "await"
    /\ guard = t
    /\ UNCHANGED <<calls, others>>
    /\ LET c == call[t] IN
       \/ /\ pager' = [pager EXCEPT !.closed = TRUE]
          /\ Return(t, [c EXCEPT !.answer = "None"], Ok(FALSE),
                    [hist EXCEPT !.exhaustedAt = IF @ = 0 THEN c.id ELSE @])
       \/ /\ ~pager.closed
          /\ \E closes \in BOOLEAN : pager' = [pager EXCEPT !.closed = closes]
          /\ Return(t, [c EXCEPT !.answer = "Err"], Err(from_error(NextRowError)),
                    [hist EXCEPT !.faulty = TRUE,
                                 !.fetchFailedAt = IF @ = 0 THEN c.id ELSE @])
       \/ /\ ~pager.closed
          /\ pager.pos < MaxRows
          /\ pager' = Yielded(pager)
          /\ \E r \in RowsOf(Len(pager.column_specs)) :
                ContinueWith(t, [c EXCEPT !.answer = "Row", !.row = pager.pos + 1,
                                          !.column_iterator = r],
                             [hist EXCEPT !.faulty = @ \/ Malformed(r)])

\* Lines 208-244: one iteration of the loop over the declared columns.
next_column(t) ==
    /\ pc[t] = "columns"
    /\ guard = t
    /\ UNCHANGED <<pager, calls, others>>
    /\ LET c == call[t]
           i == c.value_index
           row == c.column_iterator
       IN
       IF i + 1 > Len(row)
       THEN \* column_iterator.next() is None: fewer columns than expected
            Return(t, c, Err(FewerColumnsException(i, num_columns(pager))), hist)
       ELSE IF row[i + 1] = "err"
       THEN Return(t, c, Err(from_error(ColumnError)), hist)
       ELSE IF is_null(row[i + 1])
       THEN \* the value is null, so deserialization is skipped
            Continue(t, [c EXCEPT !.value_index = i + 1])
       ELSE \E e \in CallbackResults :
              LET d == [c EXCEPT !.cbs = Append(@, i), !.thrown = e] IN
              IF has_exception(e)
              THEN Return(t, d, Err(e), [hist EXCEPT !.faulty = TRUE])
              ELSE Continue(t, [d EXCEPT !.value_index = i + 1])

Next ==
    \E t \in Threads :
        \/ row_set_get_columns_count(t)
        \/ row_set_fill_columns_metadata(t)
        \/ set_metadata(t)
        \/ row_set_next_row(t)
        \/ next_column_iterator(t)
        \/ next_column(t)

Spec == Init /\ [][Next]_vars

\* ------------------------------------------------------ type tree accessors
\* The ColumnType trees the accessors are called on: every native type and
\* one unsupported one, lists, sets and maps (frozen or not), vectors, and
\* tuples and user-defined types of up to MaxFields fields.
MaxFields == 2

NativeTypes ==
    {"Ascii", "BigInt", "Blob", "Boolean", "Counter", "Decimal", "Double", "Float",
     "Int", "Text", "Timestamp", "Uuid", "Varint", "Timeuuid", "Inet", "Date",
     "Time", "SmallInt", "TinyInt", "Duration", "Other"}

Children ==
    {Native("Int"), Native("Text"), Collection("List", FALSE, <<Native("Int")>>)}

FieldSeqs == UNION {[1..k -> Children] : k \in 0..MaxFields}

FieldNames == <<"x", "y", "z", "w">>

TypeNodes ==
    {Native(nt) : nt \in NativeTypes}
        \cup {Collection(ct, f, <<c>>) : ct \in {"List", "Set"}, f \in BOOLEAN, c \in Children}
        \cup {Collection("Map", f, <<k, v>>) : f \in BOOLEAN, k \in Children, v \in Children}
        \cup {Vector(c) : c \in Children}
        \cup {Tuple(fs) : fs \in FieldSeqs}
        \cup {UserDefinedType("u", f, SubSeq(FieldNames, 1, Len(fs)), fs) :
                f \in BOOLEAN, fs \in FieldSeqs}

\* The frame of an accessor call: its arguments, nothing returned or written.
Accessor(name, h, i, o) ==
    [NoWalk EXCEPT !.fn = name, !.handle = h, !.index = i, !.out_null = o]

\* panic!(..) inside an extern "C" function: the process aborts.
Panic(w) == [w EXCEPT !.panicked = TRUE]

\* Mutant: a vector passes for a list, as its type code says.
is_List_or_Vector(typ) ==
    (typ.kind = "Collection" /\ typ.name = "List") \/ typ.kind = "Vector"

\* ColumnType::Collection { typ: CollectionType::List(inner), .. }
is_List(typ) == typ.kind = "Collection" /\ typ.name = "List"

\* ColumnType::Collection { typ: CollectionType::Set(inner), .. }
is_Set(typ) == typ.kind = "Collection" /\ typ.name = "Set"

\* ColumnType::Collection { typ: CollectionType::Map(key, value), .. }
is_Map(typ) == typ.kind = "Collection" /\ typ.name = "Map"

\* Mutant: the fields are counted from the end.
in_fields_reversed(fields, index) ==
    IF index < Len(fields) THEN <<fields[Len(fields) - index]>> ELSE <<>>

\* fields.get(index): Some(field) as <<field>>, None as <<>>.
in_fields(fields, index) ==
    IF index < Len(fields) THEN <<fields[index + 1]>> ELSE <<>>

\* row_set_type_info_get_code(type_info_handle) -> u8
get_code(h) ==
    LET w == Accessor("get_code", h, 0, FALSE)
    IN  IF h.null THEN Panic(w)
        ELSE [w EXCEPT !.value = column_type_to_code(h.typ)]

\* The accessors of one child: null out pointer, null handle, then the match.
get_child(name, matches, h, o) ==
    LET w == Accessor(name, h, 0, o)
    IN  IF o \/ h.null \/ ~matches THEN Panic(w)
        ELSE [w EXCEPT !.out_handles = <<RefFFI_as_ptr(h.typ.fields[1])>>]

\* row_set_type_info_get_list_child(type_info_handle, out_child_handle)
get_list_child(h, o) == get_child("get_list_child", is_List(h.typ), h, o)

\* row_set_type_info_get_set_child(type_info_handle, out_child_handle)
get_set_child(h, o) == get_child("get_set_child", is_Set(h.typ), h, o)

\* row_set_type_info_get_map_children(type_info_handle, out_key_handle,
\* out_value_handle)
get_map_children(h, o) ==
    LET w == Accessor("get_map_children", h, 0, o)
    IN  IF o \/ h.null \/ ~is_Map(h.typ) THEN Panic(w)
        ELSE [w EXCEPT !.out_handles =
                  <<RefFFI_as_ptr(h.typ.fields[1]), RefFFI_as_ptr(h.typ.fields[2])>>]

\* row_set_type_info_get_tuple_field_count(type_info_handle) -> usize
get_tuple_field_count(h) ==
    LET w == Accessor("get_tuple_field_count", h, 0, FALSE)
    IN  IF h.null \/ h.typ.kind # "Tuple" THEN Panic(w)
        ELSE [w EXCEPT !.value = Len(h.typ.fields)]

\* row_set_type_info_get_tuple_field(type_info_handle, index, out_field_handle)
get_tuple_field(h, i, o) ==
    LET w == Accessor("get_tuple_field", h, i, o)
    IN  IF o \/ h.null \/ h.typ.kind # "Tuple" THEN Panic(w)
        ELSE IF in_fields(h.typ.fields, i) = <<>> THEN Panic(w)
        ELSE [w EXCEPT !.out_handles = <<RefFFI_as_ptr(in_fields(h.typ.fields, i)[1])>>]

\* row_set_type_info_get_udt_name(type_info_handle, out_name): out_name is
\* written without a null check.
get_udt_name(h, o) ==
    LET w == Accessor("get_udt_name", h, 0, o)
    IN  IF h.null \/ h.typ.kind # "UserDefinedType" THEN Panic(w)
        ELSE [w EXCEPT !.out_names = <<h.typ.name>>]

\* row_set_type_info_get_udt_field_count(type_info_handle) -> usize
get_udt_field_count(h) ==
    LET w == Accessor("get_udt_field_count", h, 0, FALSE)
    IN  IF h.null \/ h.typ.kind # "UserDefinedType" THEN Panic(w)
        ELSE [w EXCEPT !.value = Len(h.typ.fields)]

\* row_set_type_info_get_udt_field(type_info_handle, index, out_field_name,
\* out_field_type_handle)
get_udt_field(h, i, o) ==
    LET w == Accessor("get_udt_field", h, i, o)
    IN  IF o \/ h.null \/ h.typ.kind # "UserDefinedType" THEN Panic(w)
        ELSE IF in_fields(h.typ.fields, i) = <<>> THEN Panic(w)
        ELSE [w EXCEPT !.out_names = in_fields(h.typ.fnames, i),
                       !.out_handles = <<RefFFI_as_ptr(in_fields(h.typ.fields, i)[1])>>]

\* What a call of an accessor leaves alone: the RowSet and the session.
stream == <<pager, guard, pc, call, ret, calls, hist, task>>

\* The handles the caller holds after the call in w: null, the handle it
\* passed, and the handles the call wrote or the callback was given.
Known(w) ==
    {RefFFI_null}
        \cup {w.out_handles[j] : j \in 1..Len(w.out_handles)}
        \cup (IF w.fn \in {"none", "set_metadata"} THEN {} ELSE {w.handle})

\* A panic ends the process: no call follows it.
Alive == ~walk.panicked

row_set_type_info_get_code ==
    /\ Alive
    /\ \E h \in Known(walk) : walk' = get_code(h)
    /\ UNCHANGED stream

row_set_type_info_get_list_child ==
    /\ Alive
    /\ \E h \in Known(walk), o \in BOOLEAN : walk' = get_list_child(h, o)
    /\ UNCHANGED stream

row_set_type_info_get_set_child ==
    /\ Alive
    /\ \E h \in Known(walk), o \in BOOLEAN : walk' = get_set_child(h, o)
    /\ UNCHANGED stream

row_set_type_info_get_map_children ==
    /\ Alive
    /\ \E h \in Known(walk), o \in BOOLEAN : walk' = get_map_children(h, o)
    /\ UNCHANGED stream

row_set_type_info_get_tuple_field_count ==
    /\ Alive
    /\ \E h \in Known(walk) : walk' = get_tuple_field_count(h)
    /\ UNCHANGED stream

row_set_type_info_get_tuple_field ==
    /\ Alive
    /\ \E h \in Known(walk), i \in 0..(MaxFields + 1), o \in BOOLEAN :
          walk' = get_tuple_field(h, i, o)
    /\ UNCHANGED stream

\* Writing through a null out_name is undefined behaviour: the write faults
\* and the process dies, or it lands nowhere the caller can see.
row_set_type_info_get_udt_name ==
    /\ Alive
    /\ \E h \in Known(walk), o \in BOOLEAN :
          IF o /\ ~get_udt_name(h, o).panicked
          THEN walk' \in {Panic(Accessor("get_udt_name", h, 0, o)),
                          Accessor("get_udt_name", h, 0, o)}
          ELSE walk' = get_udt_name(h, o)
    /\ UNCHANGED stream

row_set_type_info_get_udt_field_count ==
    /\ Alive
    /\ \E h \in Known(walk) : walk' = get_udt_field_count(h)
    /\ UNCHANGED stream

row_set_type_info_get_udt_field ==
    /\ Alive
    /\ \E h \in Known(walk), i \in 0..(MaxFields + 1), o \in BOOLEAN :
          walk' = get_udt_field(h, i, o)
    /\ UNCHANGED stream

\* One turn of the loop of row_set_fill_columns_metadata on a column of any
\* type: the type code and the handle the callback is given.  The frame
\* keeps the column's type in `handle`; the caller holds only what the
\* callback was given.
describe_column ==
    /\ Alive
    /\ \E typ \in TypeNodes :
          LET m == MetadataArgs(0, ColumnSpec("c0", typ))
          IN  walk' = [Accessor("set_metadata", RefFFI_as_ptr(typ), 0, FALSE) EXCEPT
                          !.value = m.type_code,
                          !.out_handles = <<m.type_info_handle>>]
    /\ UNCHANGED stream

TypesInit == Init /\ ~pager.some

TypesNext ==
    \/ row_set_type_info_get_code
    \/ row_set_type_info_get_list_child
    \/ row_set_type_info_get_set_child
    \/ row_set_type_info_get_map_children
    \/ row_set_type_info_get_tuple_field_count
    \/ row_set_type_info_get_tuple_field
    \/ row_set_type_info_get_udt_name
    \/ row_set_type_info_get_udt_field_count
    \/ row_set_type_info_get_udt_field
    \/ describe_column

SpecTypes == TypesInit /\ [][TypesNext]_vars

\* ------------------------------------------------------------------ session
\* The session functions that produce a RowSet.  Each schedules a future
\* with BridgedFuture::spawn::<_, _, PagerExecutionError>; the future awaits
\* the library call and resolves to Ok(RowSet) or Err(PagerExecutionError),
\* which the bridge hands to the caller's completion callback.

\* The most columns the result of a statement run through the session declares.
MaxResultCols == 1

\* The variants of PagerExecutionError.
PagerExecutionErrors == {"PrepareError", "SerializationError", "NextPageError"}

\* The variants of UseKeyspaceError; "Other" stands for the future variants
\* of the non-exhaustive enum.
UseKeyspaceErrors ==
    {"RequestError", "BadKeyspaceName", "KeyspaceNameMismatch", "RequestTimeout", "Other"}

\* PagerExecutionError::NextPageError(..) around the given request error.
NextPageError(req_error) == [variant |-> "NextPageError", inner |-> req_error]

\* Mutant: only the request error is converted; a bad name is reported as a
\* serialization failure.
use_keyspace_map_err_partial(e) ==
    CASE e = "RequestError" -> NextPageError("RequestError")
      [] e = "BadKeyspaceName" -> [variant |-> "SerializationError", inner |-> "none"]
      [] OTHER -> NextPageError("UnexpectedResponse")

\* The closure of .map_err(|e| match e { .. }) in session_use_keyspace.
use_keyspace_map_err(e) ==
    CASE e = "RequestError" -> NextPageError("RequestError")
      [] OTHER -> NextPageError("UnexpectedResponse")

\* Mutant: the empty RowSet owns a cursor without columns.
RowSet_empty_with_pager == SomePager(0)

\* RowSet::empty()
RowSet_empty == NoPager

\* What scheduling and resolving a future leaves alone.
rowset == <<guard, pc, call, ret, calls, hist, walk>>

\* BridgedFuture::spawn(tcb, async move { .. }): the future is scheduled.
spawn(name) ==
    /\ task.state = "none"
    /\ task' = [NoTask EXCEPT !.op = name, !.state = "scheduled"]
    /\ UNCHANGED <<pager, rowset>>

\* The future resolved to Ok(RowSet { pager }).
Resolved(p) ==
    /\ task' = [task EXCEPT !.state = "ok", !.cause = "Ok"]
    /\ pager' = p
    /\ UNCHANGED rowset

\* The library call failed with `cause`, the future resolved to Err(err).
Rejected(cause, err) ==
    /\ task' = [task EXCEPT !.state = "failed", !.cause = cause,
                            !.error = err.variant, !.inner = err.inner]
    /\ UNCHANGED <<pager, rowset>>

session_query == spawn("session_query")

session_query_bound == spawn("session_query_bound")

session_use_keyspace == spawn("session_use_keyspace")

\* let query_pager = bridged_session.inner.query_iter(statement, ()).await?;
\* Ok(RowSet { pager: Mutex::new(Some(query_pager)) })
session_query_future ==
    /\ task.op = "session_query" /\ task.state = "scheduled"
    /\ \/ \E n \in 0..MaxResultCols : Resolved(SomePager(n))
       \/ \E e \in PagerExecutionErrors : Rejected(e, [variant |-> e, inner |-> "none"])

\* let query_pager = bridged_session.inner.execute_iter(prepared, ()).await?;
\* Ok(RowSet { pager: Mutex::new(Some(query_pager)) })
session_query_bound_future ==
    /\ task.op = "session_query_bound" /\ task.state = "scheduled"
    /\ \/ \E n \in 0..MaxResultCols : Resolved(SomePager(n))
       \/ \E e \in PagerExecutionErrors : Rejected(e, [variant |-> e, inner |-> "none"])

\* bridged_session.inner.use_keyspace(..).await.map_err(..)?; Ok(RowSet::empty())
session_use_keyspace_future ==
    /\ task.op = "session_use_keyspace" /\ task.state = "scheduled"
    /\ \/ Resolved(RowSet_empty)
       \/ \E e \in UseKeyspaceErrors : Rejected(e, use_keyspace_map_err(e))

\* The caller uses the RowSet it was handed.
row_set == task.state = "ok" /\ Next

SessionInit == Init /\ ~pager.some

SessionNext ==
    \/ session_query
    \/ session_query_bound
    \/ session_use_keyspace
    \/ session_query_future
    \/ session_query_bound_future
    \/ session_use_keyspace_future
    \/ row_set

SpecSession == SessionInit /\ [][SessionNext]_vars

\* ------------------------------------------------------------------ claims
AllIdle == \A t \in Threads : pc[t] = "idle"

\* The calls that hold a row the pager yielded and have not returned yet.
Holding == {t \in Threads : call[t].row # 0}

\* The indices (0-based, ascending) of the raw columns of r that hold a slice.
SliceIndices(r) ==
    SelectSeq([j \in 1..Len(r) |-> j - 1], LAMBDA k : r[k + 1] = "slice")

NullCount(r) == Cardinality({j \in 1..Len(r) : r[j] = "null"})

Success(c) == c.result = FfiException("ok", 0, 0)

\* C1: on a stream with a cursor and N declared columns, when no fetch fails,
\* no row is malformed and no callback signals an exception: every next_row
\* call returns success; the rows the cursor yields are delivered
\* (has_row = true) once each and in order, so that when the cursor answers
\* None after k rows exactly k calls have returned has_row = true; the call
\* delivering a row invoked the callback exactly N minus the number of its
\* nulls times; and every call from the one that met the end on returns
\* has_row = false.
C1_CleanStreamDeliversEveryRow ==
    (pager.some /\ ~hist.faulty) =>
        /\ hist.delivered = [j \in 1..Len(hist.delivered) |-> j]
        /\ Len(hist.delivered) + Cardinality(Holding) = pager.pos
        /\ hist.exhaustedAt # 0 => Len(hist.delivered) = pager.pos
        /\ ret.op = "next_row" =>
            /\ Success(ret)
            /\ ret.has_row =>
                Len(ret.cbs) = Len(pager.column_specs) - NullCount(ret.column_iterator)
            /\ ret.has_row <=> ret.answer = "Row"
            /\ (hist.exhaustedAt # 0 /\ ret.id >= hist.exhaustedAt) => ~ret.has_row

\* Two rows were delivered, the cursor then answered None, and a later call
\* returned.
C1_Witness ==
    /\ pager.some /\ ~hist.faulty
    /\ Len(pager.column_specs) = MaxCols
    /\ Len(hist.delivered) = 2
    /\ hist.exhaustedAt # 0
    /\ ret.op = "next_row" /\ ret.id > hist.exhaustedAt

\* C2: however the threads' next_row calls interleave, at most one call is
\* inside the stream at a time (so the callbacks of one row are never mixed
\* with those of another), no row is delivered twice, and every row the
\* cursor yielded is accounted for: delivered, reported with an exception,
\* or held by the one call in progress; without faults every yielded row is
\* delivered, as in a sequential run.
C2_ConcurrentCallsAreSerialised ==
    /\ Cardinality({t \in Threads : pc[t] # "idle"}) <= 1
    /\ \A i, j \in 1..Len(hist.delivered) :
          i # j => hist.delivered[i] # hist.delivered[j]
    /\ Cardinality(Holding) <= 1
    /\ {hist.delivered[j] : j \in 1..Len(hist.delivered)} \cup hist.failed
          \cup {call[t].row : t \in Holding} = 1..pager.pos
    /\ {hist.delivered[j] : j \in 1..Len(hist.delivered)} \cap hist.failed = {}
    /\ \A t \in Holding : call[t].row \notin hist.failed
          /\ \A j \in 1..Len(hist.delivered) : hist.delivered[j] # call[t].row
    /\ ~hist.faulty =>
          {hist.delivered[j] : j \in 1..Len(hist.delivered)}
              \cup {call[t].row : t \in Holding} = 1..pager.pos

\* One thread is in the column loop of the second row right after another
\* thread's call delivered the first.
C2_Witness ==
    \E t \in Threads :
        /\ pc[t] = "columns"
        /\ call[t].row = 2
        /\ ret.op = "next_row" /\ ret.has_row /\ ret.thread # t
        /\ hist.delivered = <<1>>

\* C3: on a stream without a cursor, columns_count returns 0 and every
\* next_row call returns success with has_row = false, without awaiting a
\* pager and without invoking the callback, however often and from whichever
\* thread it is called.
C3_NoCursorIsEmpty ==
    ~pager.some =>
        /\ ret.op = "columns_count" => ret.count = 0
        /\ ret.op = "next_row" =>
            /\ Success(ret) /\ ~ret.has_row
            /\ ret.cbs = <<>> /\ ret.answer = "none"
        /\ \A t \in Threads : pc[t] \notin {"await", "columns"}
        /\ hist.delivered = <<>>

\* The fourth call on a cursor-less stream is a next_row of the second thread.
C3_Witness ==
    /\ ~pager.some
    /\ ret.op = "next_row" /\ ret.id = MaxCalls /\ ret.thread = 2

\* C4: once a next_row call has returned has_row = false because the cursor
\* had no more rows, every later next_row call returns success with
\* has_row = false, and no call is ever again in the column loop.
C4_ExhaustionIsMonotonic ==
    hist.exhaustedAt # 0 =>
        /\ (ret.op = "next_row" /\ ret.id >= hist.exhaustedAt) =>
              Success(ret) /\ ~ret.has_row /\ ret.answer = "None"
        /\ \A t \in Threads : pc[t] # "columns"
        /\ pager.closed

\* A next_row call returned after the one that met the end of the rows, on
\* a stream that had delivered a row and had seen a fault.
C4_Witness ==
    /\ hist.exhaustedAt # 0
    /\ ret.op = "next_row" /\ ret.id > hist.exhaustedAt
    /\ hist.delivered # <<>>
    /\ hist.faulty

\* C5: a call never invokes the callback for an index whose raw value is
\* null, nor twice for an index; in a delivered row the callback was invoked
\* exactly once, in ascending order, for every index whose raw value is
\* present.
C5_NullColumnsAreSkipped ==
    /\ \A c \in {ret} \cup {call[t] : t \in Threads} :
          c.op = "next_row" =>
            /\ \A j \in 1..Len(c.cbs) :
                  /\ c.cbs[j] + 1 \in 1..Len(c.column_iterator)
                  /\ c.column_iterator[c.cbs[j] + 1] = "slice"
            /\ \A j, k \in 1..Len(c.cbs) : j < k => c.cbs[j] < c.cbs[k]
    /\ (ret.op = "next_row" /\ ret.has_row) =>
          ret.cbs = SliceIndices(ret.column_iterator)

\* A delivered row whose last column is null: the callback saw index 0 only.
C5_Witness ==
    /\ ret.op = "next_row" /\ ret.has_row
    /\ ret.column_iterator = <<"slice", "null">>
    /\ ret.cbs = <<0>>

\* The call c was yielded a row with fewer raw columns than the metadata
\* declares.
ShortRow(c) ==
    /\ c.op = "next_row" /\ c.answer = "Row"
    /\ Len(c.column_iterator) < Len(pager.column_specs)

\* C6 as stated: whenever the cursor yields a row with m < N raw values,
\* next_row returns the fewer-columns error carrying m and N, leaves
\* has_row = false and invokes the callback for no index >= m.
C6_ShortRowAlwaysFewerColumns ==
    ShortRow(ret) =>
        /\ ret.result = FfiException("fewer_columns", Len(ret.column_iterator),
                                     Len(pager.column_specs))
        /\ ~ret.has_row
        /\ \A j \in 1..Len(ret.cbs) : ret.cbs[j] < Len(ret.column_iterator)

\* C6, amended: when the cursor yields a row with m < N raw values, next_row
\* returns an exception with has_row = false and invokes the callback for no
\* index >= m; the exception is the fewer-columns error carrying m and N
\* unless one of the m columns present failed first (its frame did not
\* parse, or the callback signalled an exception for it), and then it is
\* that column's exception.
C6_ShortRowFails ==
    ShortRow(ret) =>
        /\ ~ret.has_row
        /\ ret.result.kind # "ok"
        /\ \A j \in 1..Len(ret.cbs) : ret.cbs[j] < Len(ret.column_iterator)
        /\ IF ret.thrown.kind = "foreign"
           THEN ret.result = ret.thrown
           ELSE IF \E j \in 1..Len(ret.column_iterator) : ret.column_iterator[j] = "err"
           THEN ret.result = FfiException("error", ColumnError, 0)
           ELSE ret.result = FfiException("fewer_columns", Len(ret.column_iterator),
                                          Len(pager.column_specs))

\* A row with one raw value of two declared: the callback ran for index 0
\* and the call returned the fewer-columns error with the counts 1 and 2.
C6_Witness ==
    /\ ShortRow(ret)
    /\ ret.column_iterator = <<"slice">>
    /\ ret.cbs = <<0>>
    /\ ret.result = FfiException("fewer_columns", 1, 2)

\* C7: when the deserialization callback signals an exception at index i,
\* the call is over at once: it returns that very exception with
\* has_row = false, index i is the last one the callback saw, and no call is
\* still in its column loop after its callback signalled an exception.
C7_CallbackExceptionStopsTheRow ==
    /\ (ret.op = "next_row" /\ ret.thrown.kind = "foreign") =>
          /\ ret.result = ret.thrown
          /\ ~ret.has_row
          /\ ret.cbs # <<>>
          /\ ret.cbs[Len(ret.cbs)] = ret.value_index
          /\ \A j \in 1..Len(ret.cbs) : ret.cbs[j] <= ret.value_index
    /\ \A t \in Threads :
          call[t].op = "next_row" => call[t].thrown.kind = "ok"
    /\ (ret.op = "next_row" /\ ret.result.kind = "foreign") => ret.result = ret.thrown

\* The callback signalled the second foreign exception at index 0 of a row
\* whose index 1 holds a value too.
C7_Witness ==
    /\ ret.op = "next_row"
    /\ ret.column_iterator = <<"slice", "slice">>
    /\ ret.thrown = FfiException("foreign", 2, 0)
    /\ ret.cbs = <<0>>

\* C8: when the cursor's fetch fails, next_row returns the marshalled error
\* with has_row = false and without a callback invocation; nothing of the
\* failure stays in the engine: every next_row call on the stream, also one
\* after a failed fetch, awaits the cursor again and returns what follows
\* from the cursor's answer.
C8_FetchErrorLeavesStreamActive ==
    /\ (ret.op = "next_row" /\ ret.answer = "Err") =>
          /\ ret.result = FfiException("error", NextRowError, 0)
          /\ ~ret.has_row
          /\ ret.cbs = <<>>
    /\ (pager.some /\ ret.op = "next_row"
            /\ hist.fetchFailedAt # 0 /\ ret.id > hist.fetchFailedAt) =>
          /\ ret.answer # "none"
          /\ ret.answer = "None" => Success(ret) /\ ~ret.has_row
          /\ ret.has_row => ret.answer = "Row"
    /\ (hist.fetchFailedAt # 0 /\ AllIdle) => guard = NoThread

\* After a failed fetch a later call was yielded a row and delivered it.
C8_Witness ==
    /\ hist.fetchFailedAt # 0
    /\ ret.op = "next_row" /\ ret.id > hist.fetchFailedAt
    /\ ret.has_row

\* C9: the guard of the pager is held only by a call in progress: whenever
\* no call is in progress the mutex is free, whichever way the earlier
\* calls returned, and a thread inside a call is the one holding it.
C9_GuardReleasedOnEveryExit ==
    /\ AllIdle => guard = NoThread
    /\ guard # NoThread => pc[guard] # "idle"
    /\ \A t \in Threads : pc[t] # "idle" => guard = t

\* All calls have returned, the last one with the fewer-columns error, after
\* a delivered row and a failed fetch, and the mutex is free.
C9_Witness ==
    /\ AllIdle /\ guard = NoThread
    /\ ret.op = "next_row" /\ ret.result.kind = "fewer_columns"
    /\ hist.delivered # <<>>
    /\ hist.fetchFailedAt # 0

\* C10 as stated: a columns_count call completes even while another
\* thread's next_row call is in progress on the stream.
C10_ColumnsCountNeverBlocks ==
    \A t, u \in Threads :
        (pc[t] = "idle" /\ pc[u] \in {"await", "columns"} /\ calls < MaxCalls) =>
            ENABLED row_set_get_columns_count(t)

\* C10, amended: columns_count locks the pager like the other calls: it
\* completes exactly when no other call holds the guard (it waits while a
\* next_row call is awaiting the cursor or running callbacks), and it
\* returns the declared column count.
C10_ColumnsCountWaitsForTheGuard ==
    /\ \A t \in Threads :
          (pc[t] = "idle" /\ calls < MaxCalls) =>
              (ENABLED row_set_get_columns_count(t) <=> guard = NoThread)
    /\ ret.op = "columns_count" =>
          ret.count = IF pager.some THEN Len(pager.column_specs) ELSE 0

\* A columns_count call returned the two declared columns between two
\* next_row calls, and another thread's next_row is awaiting the cursor.
C10_Witness ==
    /\ ret.op = "columns_count" /\ ret.count = 2 /\ ret.id = 2
    /\ \E u \in Threads : pc[u] = "await" /\ ret.thread # u

\* C11: on a stream with a cursor and N column specs, a fill_columns_metadata
\* call whose callback never signalled an exception has invoked it exactly
\* N times, with the indices 0..N-1 in ascending order, each time with the
\* name, keyspace, table, type code and frozen flag of the column at that
\* index, and has returned success.
C11_MetadataOfEveryColumnInOrder ==
    (pager.some /\ ret.op = "fill_columns_metadata" /\ ret.thrown.kind = "ok") =>
        /\ Success(ret)
        /\ Len(ret.meta) = Len(pager.column_specs)
        /\ ret.cbs = [j \in 1..Len(pager.column_specs) |-> j - 1]
        /\ \A j \in 1..Len(ret.meta) :
              /\ ret.meta[j].value_index = j - 1
              /\ ret.meta[j].name = pager.column_specs[j].name
              /\ ret.meta[j].keyspace = pager.column_specs[j].ks_name
              /\ ret.meta[j].table = pager.column_specs[j].table_name
              /\ ret.meta[j].type_code = column_type_to_code(pager.column_specs[j].typ)
              /\ ret.meta[j].is_frozen =
                    (pager.column_specs[j].typ.kind \in {"Collection", "UserDefinedType"}
                        /\ pager.column_specs[j].typ.frozen)
              /\ ret.meta[j].name = "c0" =>
                    ret.meta[j].type_code = 9 /\ ~ret.meta[j].is_frozen
              /\ ret.meta[j].name = "c1" =>
                    ret.meta[j].type_code = 32 /\ ret.meta[j].is_frozen

\* A call described both declared columns, the int and the frozen list, and
\* returned success.
C11_Witness ==
    /\ pager.some /\ ret.op = "fill_columns_metadata" /\ Success(ret)
    /\ Len(ret.meta) = 2
    /\ ret.meta[1].name = "c0" /\ ret.meta[1].keyspace = "ks" /\ ret.meta[1].table = "tbl"
    /\ ret.meta[2].name = "c1" /\ ret.meta[2].type_code = 32 /\ ret.meta[2].is_frozen

\* C13: when the metadata callback signals an exception at index i, the call
\* returns that very exception at once: the callback was invoked for the
\* indices 0..i, once each and in order, and for none after i; no call is
\* still in the metadata loop after its callback signalled an exception.
C13_MetadataCallbackExceptionStops ==
    /\ (ret.op = "fill_columns_metadata" /\ ret.thrown.kind = "foreign") =>
          /\ ret.result = ret.thrown
          /\ ret.cbs = [j \in 1..(ret.value_index + 1) |-> j - 1]
          /\ Len(ret.meta) = ret.value_index + 1
          /\ ret.value_index < Len(pager.column_specs)
    /\ \A t \in Threads :
          call[t].op = "fill_columns_metadata" => call[t].thrown.kind = "ok"
    /\ (ret.op = "fill_columns_metadata" /\ ret.result.kind = "foreign") =>
          ret.result = ret.thrown

\* The callback signalled the second foreign exception at index 1 of two
\* columns, after index 0 went well.
C13_Witness ==
    /\ ret.op = "fill_columns_metadata"
    /\ ret.thrown = FfiException("foreign", 2, 0)
    /\ ret.cbs = <<0, 1>>
    /\ ret.result = FfiException("foreign", 2, 0)

\* C14: on a stream without a cursor fill_columns_metadata returns the
\* "no pager" exception built by the rust exception constructor and never
\* invokes the metadata callback.
C14_MetadataWithoutCursorFails ==
    ~pager.some =>
        /\ ret.op = "fill_columns_metadata" =>
              /\ ret.result = FfiException("no_pager", 0, 0)
              /\ ret.cbs = <<>> /\ ret.meta = <<>>
        /\ \A t \in Threads : pc[t] # "metadata"

\* The third call on a cursor-less stream is a fill_columns_metadata, and it
\* returned the exception.
C14_Witness ==
    /\ ~pager.some
    /\ ret.op = "fill_columns_metadata" /\ ret.id = 3
    /\ ret.result.kind = "no_pager"

\* The rows handed out so far, as a set.
Delivered == {hist.delivered[j] : j \in 1..Len(hist.delivered)}

\* C20 as stated: the j-th call that returns has_row = true delivers the
\* j-th row the cursor yields.
C20_JthDeliveryIsJthRow ==
    \A j \in 1..Len(hist.delivered) : hist.delivered[j] = j

\* C20, amended: rows are delivered in cursor order: the rows delivered are,
\* in the order of their delivery, the rows the cursor yielded without those
\* whose call returned an exception (the j-th delivery is the j-th yielded
\* row when no row was abandoned); calls are handed rows in the order in
\* which they acquire the cursor: a call in progress acquired it after every
\* call that has returned and holds the newest row.
C20_DeliveryFollowsCursorOrder ==
    /\ \A i, j \in 1..Len(hist.delivered) :
          i < j => hist.delivered[i] < hist.delivered[j]
    /\ Delivered = (1..pager.pos) \ (hist.failed \cup {call[t].row : t \in Holding})
    /\ hist.failed = {} => \A j \in 1..Len(hist.delivered) : hist.delivered[j] = j
    /\ \A t \in Threads : pc[t] # "idle" => call[t].id > ret.id
    /\ \A t \in Holding : call[t].row = pager.pos
    /\ (ret.op = "next_row" /\ ret.has_row) =>
          ret.row = hist.delivered[Len(hist.delivered)]

\* Two threads delivered the first and the second row, in that order.
C20_Witness ==
    /\ hist.delivered = <<1, 2>>
    /\ ret.op = "next_row" /\ ret.has_row /\ ret.row = 2 /\ ret.thread = 2

\* The accessor call in `walk` was made on a node: its handle is not null.
OnNode == walk.fn # "none" /\ ~walk.handle.null

\* C12: whenever the metadata callback is invoked, the type handle it is
\* given is null exactly when the column's type is a plain scalar, and it
\* points to the column's type for every collection, tuple and user-defined
\* type.
C12_HandleNullExactlyForScalars ==
    walk.fn = "set_metadata" =>
        /\ walk.out_handles[1].null <=> (walk.handle.typ.kind = "Native")
        /\ walk.handle.typ.kind \in {"Collection", "Tuple", "UserDefinedType"} =>
              walk.out_handles[1] = [null |-> FALSE, typ |-> walk.handle.typ]

\* The callback was given a handle for a frozen map column.
C12_Witness ==
    /\ walk.fn = "set_metadata"
    /\ walk.handle.typ.kind = "Collection" /\ walk.handle.typ.name = "Map"
    /\ walk.handle.typ.frozen
    /\ ~walk.out_handles[1].null /\ walk.value = 33

\* The documented type-code table.
DocumentedCode ==
    [Ascii |-> 1, BigInt |-> 2, Blob |-> 3, Boolean |-> 4, Counter |-> 5,
     Decimal |-> 6, Double |-> 7, Float |-> 8, Int |-> 9, Text |-> 10,
     Timestamp |-> 11, Uuid |-> 12, Varint |-> 14, Timeuuid |-> 15, Inet |-> 16,
     Date |-> 17, Time |-> 18, SmallInt |-> 19, TinyInt |-> 20, Duration |-> 21,
     List |-> 32, Map |-> 33, Set |-> 34, UserDefinedType |-> 48, Tuple |-> 49,
     Other |-> 0]

\* The row of the table a type belongs to; a vector shares the row of list.
DocumentedKind(typ) ==
    CASE typ.kind = "Native" -> typ.name
      [] typ.kind = "Collection" -> typ.name
      [] typ.kind = "Vector" -> "List"
      [] OTHER -> typ.kind

\* C15: the type code of every column type is the code of its row of the
\* documented table, 0x00 for an unsupported native type, and two types of
\* different documented kinds never have the same code.
C15_TypeCodeFollowsTheTable ==
    (walk.fn \in {"get_code", "set_metadata"} /\ ~walk.handle.null) =>
        /\ ~walk.panicked
        /\ walk.value = DocumentedCode[DocumentedKind(walk.handle.typ)]
        /\ \A typ \in TypeNodes :
              DocumentedKind(typ) # DocumentedKind(walk.handle.typ) =>
                  column_type_to_code(typ) # walk.value

\* The code of a set is 0x22.
C15_Witness ==
    /\ walk.fn = "get_code" /\ ~walk.panicked
    /\ walk.handle.typ.kind = "Collection" /\ walk.handle.typ.name = "Set"
    /\ walk.value = 34

\* The user-defined type u { x: int, y: text }.
ExampleUdt == UserDefinedType("u", FALSE, <<"x", "y">>, <<Native("Int"), Native("Text")>>)

\* C16: on a tuple or user-defined type with c fields the count accessor
\* returns c; the field accessor at an index below c writes the child at
\* that index (and, for a user-defined type, its name); at an index of c or
\* more it fails fatally and writes nothing.
C16_FieldAccessors ==
    /\ (OnNode /\ walk.fn = "get_tuple_field_count" /\ walk.handle.typ.kind = "Tuple") =>
          ~walk.panicked /\ walk.value = Len(walk.handle.typ.fields)
    /\ (OnNode /\ walk.fn = "get_udt_field_count"
            /\ walk.handle.typ.kind = "UserDefinedType") =>
          ~walk.panicked /\ walk.value = Len(walk.handle.typ.fields)
    /\ (OnNode /\ walk.fn = "get_tuple_field" /\ walk.handle.typ.kind = "Tuple"
            /\ ~walk.out_null) =>
          IF walk.index < Len(walk.handle.typ.fields)
          THEN /\ ~walk.panicked
               /\ walk.out_handles =
                     <<[null |-> FALSE, typ |-> walk.handle.typ.fields[walk.index + 1]]>>
               /\ walk.out_names = <<>>
          ELSE walk.panicked /\ walk.out_handles = <<>> /\ walk.out_names = <<>>
    /\ (OnNode /\ walk.fn = "get_udt_field" /\ walk.handle.typ.kind = "UserDefinedType"
            /\ ~walk.out_null) =>
          IF walk.index < Len(walk.handle.typ.fields)
          THEN /\ ~walk.panicked
               /\ walk.out_handles =
                     <<[null |-> FALSE, typ |-> walk.handle.typ.fields[walk.index + 1]]>>
               /\ walk.out_names = <<walk.handle.typ.fnames[walk.index + 1]>>
          ELSE walk.panicked /\ walk.out_handles = <<>> /\ walk.out_names = <<>>
    /\ (OnNode /\ walk.fn = "get_udt_field" /\ walk.handle.typ = ExampleUdt
            /\ ~walk.out_null) =>
          CASE walk.index = 0 ->
                  /\ walk.out_names = <<"x">>
                  /\ walk.out_handles = <<[null |-> FALSE, typ |-> Native("Int")]>>
            [] walk.index = 1 ->
                  /\ walk.out_names = <<"y">>
                  /\ walk.out_handles = <<[null |-> FALSE, typ |-> Native("Text")]>>
            [] OTHER -> walk.panicked

\* The second field of u { x: int, y: text } was read: y, of type text.
C16_Witness ==
    /\ walk.fn = "get_udt_field" /\ walk.handle = [null |-> FALSE, typ |-> ExampleUdt]
    /\ walk.index = 1 /\ ~walk.panicked
    /\ walk.out_names = <<"y">>

\* The shape each accessor is for.
RightShape ==
    CASE walk.fn = "get_code" -> TRUE
      [] walk.fn = "get_list_child" ->
            walk.handle.typ.kind = "Collection" /\ walk.handle.typ.name = "List"
      [] walk.fn = "get_set_child" ->
            walk.handle.typ.kind = "Collection" /\ walk.handle.typ.name = "Set"
      [] walk.fn = "get_map_children" ->
            walk.handle.typ.kind = "Collection" /\ walk.handle.typ.name = "Map"
      [] walk.fn \in {"get_tuple_field_count", "get_tuple_field"} ->
            walk.handle.typ.kind = "Tuple"
      [] walk.fn \in {"get_udt_name", "get_udt_field_count", "get_udt_field"} ->
            walk.handle.typ.kind = "UserDefinedType"
      [] OTHER -> TRUE

\* C17: a type accessor called with a null handle, or a shape-specific
\* accessor called on a node of another shape, fails fatally: it returns no
\* value and writes nothing through its out pointers.
C17_WrongHandleIsFatal ==
    (walk.fn \notin {"none", "set_metadata"} /\ (walk.handle.null \/ ~RightShape)) =>
        /\ walk.panicked
        /\ walk.value = 0
        /\ walk.out_handles = <<>>
        /\ walk.out_names = <<>>

\* The list accessor was called on a vector, whose type code is that of a
\* list, and the process died.
C17_Witness ==
    /\ walk.fn = "get_list_child" /\ ~walk.handle.null /\ ~walk.out_null
    /\ walk.handle.typ.kind = "Vector"
    /\ walk.panicked /\ walk.out_handles = <<>>

\* C18: a use-keyspace operation whose library call failed, whatever the
\* failure, is reported to the caller as the NextPageError member of
\* PagerExecutionError and produces no stream; it is never reported as
\* another error or as success.
C18_UseKeyspaceFailuresCollapse ==
    (task.op = "session_use_keyspace" /\ task.state \in {"ok", "failed"}) =>
        /\ task.cause # "Ok" =>
              /\ task.state = "failed"
              /\ task.error = "NextPageError"
              /\ ~pager.some /\ calls = 0
        /\ task.state = "failed" => task.error = "NextPageError"
        /\ task.state = "ok" => task.cause = "Ok" /\ task.error = "none"

\* A keyspace name mismatch reached the caller as a NextPageError.
C18_Witness ==
    /\ task.op = "session_use_keyspace" /\ task.state = "failed"
    /\ task.cause = "KeyspaceNameMismatch"
    /\ task.error = "NextPageError"

C21_FailedRowIsAbandoned ==
    /\ Delivered \cap hist.failed = {}
    /\ \A t \in Threads : call[t].row \notin hist.failed
    /\ \A r \in hist.failed : r <= pager.pos
    /\ (ret.op = "next_row" /\ ret.row # 0 /\ ret.result.kind # "ok") =>
          /\ ~ret.has_row
          /\ ret.row \in hist.failed
          /\ pager.some
          /\ \A t \in Threads : call[t].row = 0 \/ call[t].row > ret.row
          /\ AllIdle => (~pager.closed /\ pager.pos = ret.row)

\* A callback exception failed the call on row 1, and the next call is at
\* work on row 2.
C21_Witness ==
    /\ ret.op = "next_row" /\ ret.row = 1 /\ ret.result.kind = "foreign"
    /\ hist.failed = {1}
    /\ \E t \in Threads : call[t].op = "next_row" /\ call[t].row = 2

\* C22: the type code and the child accessors agree on every node: the
\* list-child accessor called on a handle whose type code is 0x20 succeeds
\* and writes one child handle, likewise the set-child accessor on a code of
\* 0x22, and the map-children accessor on a code of 0x21 writes two.
C22_CodeAgreesWithChildAccessors ==
    (OnNode /\ ~walk.out_null) =>
        /\ (walk.fn = "get_list_child" /\ column_type_to_code(walk.handle.typ) = 32) =>
              ~walk.panicked /\ Len(walk.out_handles) = 1
        /\ (walk.fn = "get_set_child" /\ column_type_to_code(walk.handle.typ) = 34) =>
              ~walk.panicked /\ Len(walk.out_handles) = 1
        /\ (walk.fn = "get_map_children" /\ column_type_to_code(walk.handle.typ) = 33) =>
              ~walk.panicked /\ Len(walk.out_handles) = 2

\* C23: a next_row call that has returned wrote out_has_row exactly once,
\* and a call still in progress has not written it; has_row = true comes
\* with a result that carries no exception and with every declared column of
\* the row visited (handed to the callback, or skipped as null); a result
\* that carries an exception comes with has_row = false.
C23_HasRowWrittenOnce ==
    /\ ret.op = "next_row" =>
          /\ ret.writes = 1
          /\ ret.has_row =>
                /\ ret.result = FfiException("ok", 0, 0)
                /\ ret.answer = "Row"
                /\ ret.value_index = Len(pager.column_specs)
                /\ Len(ret.column_iterator) = Len(pager.column_specs)
                /\ Len(ret.cbs) + NullCount(ret.column_iterator) = Len(pager.column_specs)
                /\ ret.cbs = SliceIndices(ret.column_iterator)
          /\ ret.result # FfiException("ok", 0, 0) => ~ret.has_row
    /\ \A t \in Threads : call[t].writes = 0 /\ ~call[t].has_row

\* The fetch of a call failed; the call wrote has_row = false once and
\* returned the error.
C23_Witness ==
    /\ ret.op = "next_row" /\ ret.answer = "Err"
    /\ ret.result.kind = "error"
    /\ ret.writes = 1 /\ ~ret.has_row

====
